---------------------------- MODULE Spec2Model ----------------------------
(***************************************************************************)
(* Model of the banana shelf-life monitor (src/main.py): the MQ-4 sensor   *)
(* suite (calibration, resistance, ratio, ppm estimate), the smoothing     *)
(* window and threshold classification of the control loop, and the        *)
(* two-screen LCD controller.                                              *)
(*                                                                         *)
(* Python floats are modelled as exact rationals [kind, num, den] extended *)
(* with +inf and nan; None is a value of the same shape.  The only         *)
(* irrational operation, ratio ** -0.5, is evaluated on a 1/1000 grid      *)
(* (exact whenever the result lies on the grid).  Text is a sequence of    *)
(* one-character strings, so padding and truncation are real operations.   *)
(***************************************************************************)
EXTENDS Integers, Sequences, FiniteSets, TLC

(* ------------------------------ bounds -------------------------------- *)
\* most samples one calibration pass takes in the model (the program's default is 50)
MaxSamples == 2
\* most cycles of the control loop explored
MaxCycles == 6
\* most direct calls of display.update explored
MaxUpdates == 4
\* most calibration passes explored on one SensorSuite
MaxCalibrations == 2

(* ------------------------- program constants -------------------------- *)
METHANE_FRESH == 8
METHANE_EARLY == 10
METHANE_ACTIVE == 12
RO_CLEAN_AIR_FACTOR_DEFAULT == 4
MQ4_RL == 10000
ADC_FULL_SCALE == 65535
WINDOW_CAPACITY == 5
LCD_COLUMNS == 16
EST_A == 12

(* --------------------------- float values ----------------------------- *)
NoneV == [kind |-> "none", num |-> 0, den |-> 1]
InfV == [kind |-> "inf", num |-> 1, den |-> 1]
NaNV == [kind |-> "nan", num |-> 0, den |-> 1]
RaiseV == [kind |-> "raise", num |-> 0, den |-> 1]

Abs(n) == IF n < 0 THEN -n ELSE n

RECURSIVE GCD(_, _)
GCD(a, b) == IF b = 0 THEN a ELSE GCD(b, a % b)

\* the rational n/d, d > 0, in lowest terms
Rat(n, d) ==
  LET g == GCD(Abs(n), d)
  IN [kind |-> "num", num |-> n \div g, den |-> d \div g]

Num(n) == Rat(n, 1)

IsNum(x) == x.kind = "num"

\* x + y on floats (no operand is -inf in this program)
FAdd(x, y) ==
  IF x.kind = "nan" \/ y.kind = "nan" THEN NaNV
  ELSE IF x.kind = "inf" \/ y.kind = "inf" THEN InfV
  ELSE Rat(x.num * y.den + y.num * x.den, x.den * y.den)

\* x - y on finite floats
FSub(x, y) == Rat(x.num * y.den - y.num * x.den, x.den * y.den)

\* x * y; the factors are cancelled crosswise before multiplying
FMul(x, y) ==
  IF x.kind = "nan" \/ y.kind = "nan" THEN NaNV
  ELSE IF x.kind = "inf" \/ y.kind = "inf"
    THEN (IF (x.kind = "num" /\ x.num = 0) \/ (y.kind = "num" /\ y.num = 0)
            THEN NaNV ELSE InfV)
  ELSE LET g1 == GCD(Abs(x.num), y.den)
           g2 == GCD(Abs(y.num), x.den)
           a == IF g1 = 0 THEN 1 ELSE g1
           b == IF g2 = 0 THEN 1 ELSE g2
       IN Rat((x.num \div a) * (y.num \div b), (x.den \div b) * (y.den \div a))

\* x / y for x >= 0, y >= 0; a zero divisor raises ZeroDivisionError
FDiv(x, y) ==
  IF x.kind = "nan" \/ y.kind = "nan" THEN NaNV
  ELSE IF y.kind = "inf" THEN (IF x.kind = "inf" THEN NaNV ELSE Num(0))
  ELSE IF y.num = 0 THEN RaiseV
  ELSE IF x.kind = "inf" THEN InfV
  ELSE FMul(x, [kind |-> "num", num |-> y.den, den |-> y.num])

\* x < y, x <= y on floats; every comparison with nan is false
FLt(x, y) ==
  IF x.kind = "nan" \/ y.kind = "nan" THEN FALSE
  ELSE IF x.kind = "inf" THEN FALSE
  ELSE IF y.kind = "inf" THEN TRUE
  ELSE x.num * y.den < y.num * x.den

FLe(x, y) ==
  IF x.kind = "nan" \/ y.kind = "nan" THEN FALSE
  ELSE IF y.kind = "inf" THEN TRUE
  ELSE IF x.kind = "inf" THEN FALSE
  ELSE x.num * y.den <= y.num * x.den

RECURSIVE SqrtSearch(_, _, _)
SqrtSearch(n, lo, hi) ==
  IF lo >= hi THEN lo
  ELSE LET mid == (lo + hi + 1) \div 2
       IN IF mid * mid <= n THEN SqrtSearch(n, mid, hi) ELSE SqrtSearch(n, lo, mid - 1)

\* floor of the square root of n, 0 <= n < 2^31
ISqrt(n) == SqrtSearch(n, 0, 46340)


(* --------------------------- text literals ---------------------------- *)
TXT_NAN == <<"n", "a", "n">>
TXT_INF == <<"i", "n", "f">>
TXT_TEMP == <<"T", "e", "m", "p", ":", " ">>
TXT_C == <<"C">>
TXT_TEMP_NA == <<"T", "e", "m", "p", ":", " ", "N", "/", "A">>
TXT_HUMID == <<"H", "u", "m", "i", "d", "i", "t", "y", ":", " ">>
TXT_PCT == <<"%">>
TXT_HUMID_NA == <<"H", "u", "m", "i", "d", "i", "t", "y", ":", " ", "N", "/", "A">>
TXT_METHANE == <<"M", "e", "t", "h", "a", "n", "e", ":", " ">>
TXT_PPM == <<"p", "p", "m">>
TXT_METHANE_NA == <<"M", "e", "t", "h", "a", "n", "e", ":", " ", "N", "/", "A">>
TXT_SHELF_NA == <<"S", "h", "e", "l", "f", " ", "L", "i", "f", "e", ":", " ", "N", "/", "A">>
TXT_UNKNOWN == <<"U", "n", "k", "n", "o", "w", "n">>
TXT_5_7 == <<"5", "-", "7", " ", "D", "a", "y", "s">>
TXT_3_5 == <<"3", "-", "5", " ", "D", "a", "y", "s">>
TXT_1_3 == <<"1", "-", "3", " ", "D", "a", "y", "s">>
TXT_0 == <<"0", " ", "D", "a", "y", "s">>
TXT_NONE == <<"N", "o", "n", "e">>

(* ------------------------------ text ---------------------------------- *)
Digits == <<"0", "1", "2", "3", "4", "5", "6", "7", "8", "9">>

RECURSIVE NatStr(_)
NatStr(n) == IF n < 10 THEN <<Digits[n + 1]>> ELSE NatStr(n \div 10) \o <<Digits[(n % 10) + 1]>>

\* str(n) of an int
IntStr(n) == IF n < 0 THEN <<"-">> \o NatStr(-n) ELSE NatStr(n)

RECURSIVE Pow10(_)
Pow10(d) == IF d = 0 THEN 1 ELSE 10 * Pow10(d - 1)

RECURSIVE ZeroFill(_, _)
ZeroFill(s, d) == IF Len(s) >= d THEN s ELSE ZeroFill(<<"0">> \o s, d)

\* n/den (n >= 0) rounded to the nearest integer, ties to even
RoundHalfEven(n, den) ==
  LET q == n \div den
      r == n % den
  IN IF 2 * r < den THEN q
     ELSE IF 2 * r > den THEN q + 1
     ELSE IF q % 2 = 0 THEN q ELSE q + 1

\* format(x, ".<d>f") of a float; None has no such format and raises
FormatFixed(x, d) ==
  IF x.kind = "nan" THEN TXT_NAN
  ELSE IF x.kind = "inf" THEN TXT_INF
  ELSE LET scaled == RoundHalfEven(Abs(x.num) * Pow10(d), x.den)
           sign == IF x.num < 0 /\ scaled > 0 THEN <<"-">> ELSE <<>>
       IN sign \o NatStr(scaled \div Pow10(d)) \o <<".">>
            \o ZeroFill(NatStr(scaled % Pow10(d)), d)

\* int(x) of a finite float: truncation toward zero
Trunc(x) == IF x.num >= 0 THEN x.num \div x.den ELSE -((-x.num) \div x.den)

\* str(shelf_life) for the labels the program uses
LabelStr(s) ==
  CASE s = "Unknown" -> TXT_UNKNOWN
    [] s = "5-7 Days" -> TXT_5_7
    [] s = "3-5 Days" -> TXT_3_5
    [] s = "1-3 Days" -> TXT_1_3
    [] s = "0 Days" -> TXT_0
    [] OTHER -> TXT_NONE

(* ---------------------------- SensorSuite ----------------------------- *)
\* mq4_vref = 3.3
MQ4_VREF == Rat(33, 10)

\* mq4_ro_clean_air_factor or RO_CLEAN_AIR_FACTOR_DEFAULT, with the default argument None
mq4_ro_factor == Num(RO_CLEAN_AIR_FACTOR_DEFAULT)

RuntimeErrorV == [kind |-> "RuntimeError", num |-> 0, den |-> 1]
ZeroDivisionErrorV == [kind |-> "ZeroDivisionError", num |-> 0, den |-> 1]
TypeErrorV == [kind |-> "TypeError", num |-> 0, den |-> 1]

\* the value stands for an exception that left the call
IsRaise(x) == x.kind \in {"raise", "RuntimeError", "ZeroDivisionError", "TypeError"}

\* the raw samples the ADC returns in the model: 0, 1/3, 2/3 and full scale
RawSamples == {0, 21845, 43690, ADC_FULL_SCALE}

\* what dht_sensor.measure() can do in one cycle: fail, or give (temperature, humidity)
DhtReadings ==
  { [ok |-> FALSE, temp |-> NoneV, humid |-> NoneV],
    [ok |-> TRUE, temp |-> Num(25), humid |-> Num(80)] }

read_dht(dht) ==
  IF dht.ok THEN [temp |-> dht.temp, humid |-> dht.humid]
  ELSE [temp |-> NoneV, humid |-> NoneV]

voltage_from_raw(raw) == FMul(FDiv(Num(raw), Num(ADC_FULL_SCALE)), MQ4_VREF)

\* the divider formula with numerator and denominator voltages exchanged
RsSwapped(v) == FDiv(FMul(Num(MQ4_RL), v), FSub(MQ4_VREF, v))

\* the last line of get_rs, for 0 < v < vref: mq4_rl * (mq4_vref - voltage) / voltage
RsFormula(v) == FDiv(FMul(Num(MQ4_RL), FSub(MQ4_VREF, v)), v)

\* get_rs(voltage); with voltage None the ADC sample adc is read and converted
get_rs(voltage, adc) ==
  LET v == IF voltage = NoneV THEN voltage_from_raw(adc) ELSE voltage
  IN IF FLe(v, Num(0)) THEN InfV
     ELSE IF FLe(MQ4_VREF, v) THEN Num(0)
     ELSE RsFormula(v)

\* total_rs after the sampling loop of calibrate_mq4_ro over the samples in reads
RECURSIVE total_rs(_)
total_rs(reads) ==
  IF reads = <<>> THEN Num(0)
  ELSE FAdd(total_rs(SubSeq(reads, 1, Len(reads) - 1)),
            get_rs(voltage_from_raw(reads[Len(reads)]), 0))

\* the mq4_ro that calibrate_mq4_ro(samples = Len(reads)) stores and returns
calibrate_mq4_ro(reads) ==
  LET avg_rs == FDiv(total_rs(reads), Num(Len(reads)))
  IN FDiv(avg_rs, mq4_ro_factor)

\* read_mq4_ratio with baseline ro and ADC sample raw
read_mq4_ratio(ro, raw) ==
  IF ro = NoneV THEN RuntimeErrorV
  ELSE LET rs == get_rs(voltage_from_raw(raw), 0)
       IN IF ro # Num(0) THEN FDiv(rs, ro) ELSE InfV

\* ratio ** -0.5
PowNegHalf(ratio) ==
  IF ratio.kind = "nan" THEN NaNV
  ELSE IF ratio.kind = "inf" THEN Num(0)
  ELSE IF ratio.num = 0 THEN ZeroDivisionErrorV
  ELSE IF ratio.num < 0 THEN TypeErrorV
  ELSE Rat(ISqrt((ratio.den * 1000000) \div ratio.num), 1000)

\* max(ppm, 0): the first argument unless the second is greater
Max0(ppm) == IF FLt(ppm, Num(0)) THEN Num(0) ELSE ppm

\* estimate_methane_ppm(ratio) with a = 12, b = -0.5
estimate_methane_ppm(ratio) ==
  LET p == PowNegHalf(ratio)
  IN IF IsRaise(p) THEN NoneV ELSE Max0(FMul(Num(EST_A), p))

\* read_all: (temp, humid, methane_ppm); every exception of the MQ-4 path is swallowed
read_all(ro, raw, dht) ==
  LET th == read_dht(dht)
      ratio == read_mq4_ratio(ro, raw)
  IN [temp |-> th.temp, humid |-> th.humid,
      methane_ppm |-> IF IsRaise(ratio) THEN NoneV ELSE estimate_methane_ppm(ratio)]

(* -------------------------- BananaLcdDisplay -------------------------- *)
RECURSIVE Spaces(_)
Spaces(n) == IF n <= 0 THEN <<>> ELSE <<" ">> \o Spaces(n - 1)

\* pad without the cut of a longer text
PadNoTruncate(text) ==
  IF Len(text) < LCD_COLUMNS THEN text \o Spaces(LCD_COLUMNS - Len(text)) ELSE text

\* pad(text, length = 16)
pad(text) ==
  IF Len(text) < LCD_COLUMNS THEN text \o Spaces(LCD_COLUMNS - Len(text))
  ELSE SubSeq(text, 1, LCD_COLUMNS)

\* float(x) succeeds: x is not None
FloatOk(x) == x # NoneV

\* temp_str of display_screen_1
temp_str(temperature) ==
  IF FloatOk(temperature) THEN TXT_TEMP \o FormatFixed(temperature, 1) \o TXT_C
  ELSE TXT_TEMP_NA

\* humid_str of display_screen_1; int() of nan or inf raises like float(None)
humid_str(humidity) ==
  IF FloatOk(humidity) /\ IsNum(humidity)
    THEN TXT_HUMID \o IntStr(Trunc(humidity)) \o TXT_PCT
  ELSE TXT_HUMID_NA

\* methane_str of display_screen_2
methane_str(methane) ==
  IF FloatOk(methane) THEN TXT_METHANE \o FormatFixed(methane, 2) \o TXT_PPM
  ELSE TXT_METHANE_NA

\* shelf_str of display_screen_2; the string "None" stands for the value None
shelf_str(shelf_life) ==
  IF shelf_life # "None" THEN LabelStr(shelf_life) ELSE TXT_SHELF_NA

LcdClear == [op |-> "clear", col |-> 0, row |-> 0, text |-> <<>>]
LcdMoveTo(c, r) == [op |-> "move_to", col |-> c, row |-> r, text |-> <<>>]
LcdPutstr(t) == [op |-> "putstr", col |-> 0, row |-> 0, text |-> t]

\* the LCD calls one render makes for the two lines of text
RenderOps(line1, line2) ==
  << LcdClear, LcdMoveTo(0, 0), LcdPutstr(pad(line1)), LcdMoveTo(0, 1), LcdPutstr(pad(line2)) >>

display_screen_1(temperature, humidity) ==
  RenderOps(temp_str(temperature), humid_str(humidity))

display_screen_2(methane, shelf_life) ==
  RenderOps(methane_str(methane), shelf_str(shelf_life))

(* ------------------- control loop: pure computations ------------------ *)
\* methane_history after append, without the eviction
history_push_no_evict(history, value) == Append(history, value)

\* methane_history after append and, beyond five values, pop(0)
history_push(history, value) ==
  LET h == Append(history, value)
  IN IF Len(h) > WINDOW_CAPACITY THEN Tail(h) ELSE h

\* sum(methane_history), from the int 0, left to right
RECURSIVE history_sum(_)
history_sum(history) ==
  IF history = <<>> THEN Num(0)
  ELSE FAdd(history_sum(SubSeq(history, 1, Len(history) - 1)), history[Len(history)])

\* the mean taken over the capacity instead of the length
history_mean_fixed_divisor(history) == FDiv(history_sum(history), Num(WINDOW_CAPACITY))

\* sum(methane_history) / len(methane_history)
history_mean(history) == FDiv(history_sum(history), Num(Len(history)))

\* the threshold chain with <= in place of <
shelf_life_of_inclusive(avg) ==
  IF avg = NoneV THEN "Unknown"
  ELSE IF FLe(avg, Num(METHANE_FRESH)) THEN "5-7 Days"
  ELSE IF FLe(avg, Num(METHANE_EARLY)) THEN "3-5 Days"
  ELSE IF FLe(avg, Num(METHANE_ACTIVE)) THEN "1-3 Days"
  ELSE "0 Days"

\* the threshold chain of the loop
shelf_life_of(avg) ==
  IF avg = NoneV THEN "Unknown"
  ELSE IF FLt(avg, Num(METHANE_FRESH)) THEN "5-7 Days"
  ELSE IF FLt(avg, Num(METHANE_EARLY)) THEN "3-5 Days"
  ELSE IF FLt(avg, Num(METHANE_ACTIVE)) THEN "1-3 Days"
  ELSE "0 Days"

\* the status print formats methane_avg with ":.2f", which None does not support
status_print_raises(avg) == avg = NoneV

\* methane_avg or 0: a falsy value (None, 0.0) gives 0; nan is truthy
or_zero(avg) == IF avg = NoneV \/ avg = Num(0) THEN Num(0) ELSE avg

(* ------------------------------- state -------------------------------- *)
VARIABLES
  pc,               \* main program: "init", "loop", "crashed" (uncaught exception), "stopped"
  mq4_ro,           \* SensorSuite.mq4_ro
  current_screen,   \* BananaLcdDisplay.current_screen
  lcd_ops,          \* the LCD calls of the most recent display operation
  frame,            \* the arguments of the most recent update call
  rendered,         \* the screen the most recent cycle or update call rendered
  methane_history,  \* the smoothing window
  methane,          \* methane of the current cycle, as read_all returned it
  methane_avg,      \* methane_avg of the current cycle
  shelf_life,       \* shelf_life of the current cycle
  produced,         \* history: every non-None methane value so far, in order
  cycles,           \* history: cycles begun
  cycle_screen,     \* history: current_screen when the current cycle began
  updates,          \* history: calls of update
  calibrations,     \* history: calibration passes
  read_uncal,       \* history: methane_ppm of the latest read_all without a baseline
  read_cal,         \* history: methane_ppm of the latest read_all with a baseline
  rs_in,            \* arguments of get_rs calls: two voltages and the ADC sample
  rs_out            \* results of get_rs on the two voltages

vars ==
  << pc, mq4_ro, current_screen, lcd_ops, frame, rendered, methane_history, methane,
     methane_avg, shelf_life, produced, cycles, cycle_screen, updates, calibrations,
     read_uncal, read_cal, rs_in, rs_out >>

sensorVars == << mq4_ro, calibrations, read_uncal, read_cal >>
displayVars == << current_screen, lcd_ops, frame, rendered, updates >>
loopVars == << pc, methane_history, methane, methane_avg, shelf_life, produced, cycles, cycle_screen >>
rsVars == << rs_in, rs_out >>

UnsetV == [kind |-> "unset", num |-> 0, den |-> 1]
NoFrame == [temperature |-> UnsetV, humidity |-> UnsetV, methane |-> UnsetV, shelf_life |-> "unset"]
NoRsIn == [v1 |-> UnsetV, v2 |-> UnsetV, adc |-> 0]

\* after SensorSuite(...) and BananaLcdDisplay(...) are constructed, methane_history = []
Init ==
  /\ pc = "init"
  /\ mq4_ro = NoneV
  /\ current_screen = 0
  /\ lcd_ops = <<>>
  /\ frame = NoFrame
  /\ rendered = "none"
  /\ methane_history = <<>>
  /\ methane = UnsetV
  /\ methane_avg = UnsetV
  /\ shelf_life = "unset"
  /\ produced = <<>>
  /\ cycles = 0
  /\ cycle_screen = 0
  /\ updates = 0
  /\ calibrations = 0
  /\ read_uncal = UnsetV
  /\ read_cal = UnsetV
  /\ rs_in = NoRsIn
  /\ rs_out = << UnsetV, UnsetV >>

\* the sample sequences one calibration pass can read
RECURSIVE SeqsUpTo(_, _)
SeqsUpTo(S, n) ==
  IF n = 0 THEN { <<>> }
  ELSE LET shorter == SeqsUpTo(S, n - 1)
       IN shorter \cup { Append(s, x) : s \in { t \in shorter : Len(t) = n - 1 }, x \in S }

CalibrationReads == { s \in SeqsUpTo(RawSamples, MaxSamples) : Len(s) >= 1 }

(* ------------------------------ actions ------------------------------- *)
\* update that leaves current_screen as it is after rendering screen B
update_sticky(temperature, humidity, methane_arg, shelf_arg) ==
  /\ IF current_screen = 0
       THEN /\ lcd_ops' = display_screen_1(temperature, humidity)
            /\ rendered' = "A"
            /\ current_screen' = 1
       ELSE /\ lcd_ops' = display_screen_2(methane_arg, shelf_arg)
            /\ rendered' = "B"
            /\ current_screen' = 1
  /\ frame' = [temperature |-> temperature, humidity |-> humidity,
               methane |-> methane_arg, shelf_life |-> shelf_arg]
  /\ updates' = updates + 1

\* BananaLcdDisplay.update(temperature, humidity, methane, shelf_life)
update(temperature, humidity, methane_arg, shelf_arg) ==
  /\ IF current_screen = 0
       THEN /\ lcd_ops' = display_screen_1(temperature, humidity)
            /\ rendered' = "A"
            /\ current_screen' = 1
       ELSE /\ lcd_ops' = display_screen_2(methane_arg, shelf_arg)
            /\ rendered' = "B"
            /\ current_screen' = 0
  /\ frame' = [temperature |-> temperature, humidity |-> humidity,
               methane |-> methane_arg, shelf_life |-> shelf_arg]
  /\ updates' = updates + 1

\* sensors.calibrate_mq4_ro() of the main program, before the loop
MainCalibrate(reads) ==
  /\ pc = "init"
  /\ mq4_ro' = calibrate_mq4_ro(reads)
  /\ calibrations' = calibrations + 1
  /\ pc' = "loop"
  /\ UNCHANGED << read_uncal, read_cal, displayVars, rsVars, methane_history, methane,
                  methane_avg, shelf_life, produced, cycles, cycle_screen >>

\* one pass of the while loop: read_all, smoothing, classification, the status print,
\* display.update; an exception other than KeyboardInterrupt leaves the program
MainCycle(raw, dht) ==
  /\ pc = "loop"
  /\ cycles < MaxCycles
  /\ \E r \in { read_all(mq4_ro, raw, dht) } :
     \E hist \in { IF r.methane_ppm # NoneV
                     THEN history_push(methane_history, r.methane_ppm)
                     ELSE methane_history } :
     \E avg \in { IF r.methane_ppm # NoneV THEN history_mean(hist) ELSE NoneV } :
     LET temp_val == r.temp
         humid_val == IF r.humid # NoneV THEN Num(Trunc(r.humid)) ELSE NoneV
         sl == shelf_life_of(avg)
     IN /\ methane' = r.methane_ppm
        /\ methane_history' = hist
        /\ methane_avg' = avg
        /\ shelf_life' = sl
        /\ produced' = IF r.methane_ppm # NoneV THEN Append(produced, r.methane_ppm)
                       ELSE produced
        /\ cycles' = cycles + 1
        /\ cycle_screen' = current_screen
        /\ IF status_print_raises(avg)
             THEN /\ pc' = "crashed"
                  /\ rendered' = "none"
                  /\ UNCHANGED << current_screen, lcd_ops, frame, updates >>
             ELSE /\ pc' = "loop"
                  /\ update(temp_val, humid_val, or_zero(avg), sl)
  /\ UNCHANGED << sensorVars, rsVars >>

\* KeyboardInterrupt during the loop: the handler clears the display
MainInterrupt ==
  /\ pc = "loop"
  /\ pc' = "stopped"
  /\ lcd_ops' = << LcdClear >>
  /\ UNCHANGED << sensorVars, rsVars, current_screen, frame, rendered, updates,
                  methane_history, methane, methane_avg, shelf_life, produced, cycles,
                  cycle_screen >>

Next ==
  \/ \E reads \in CalibrationReads : MainCalibrate(reads)
  \/ \E raw \in RawSamples, dht \in DhtReadings : MainCycle(raw, dht)
  \/ MainInterrupt

\* the main program
Spec == Init /\ [][Next]_vars

(* ------------- the objects driven call by call, as the tests do -------- *)
\* the values a caller hands to update
UpdateTemperatures == { NoneV, Num(25) }
UpdateHumidities == { NoneV, Rat(161, 2) }
UpdateMethanes == { NoneV, Rat(21, 2), Num(0) }
UpdateShelfLives == { "None", "3-5 Days", "Unknown" }

\* sensors.calibrate_mq4_ro(samples = Len(reads)), at any time, also again
CallCalibrate(reads) ==
  /\ calibrations < MaxCalibrations
  /\ mq4_ro' = calibrate_mq4_ro(reads)
  /\ calibrations' = calibrations + 1
  /\ UNCHANGED << read_uncal, read_cal, displayVars, loopVars, rsVars >>

\* sensors.read_all(), at any time, also before any calibration
CallReadAll(raw, dht) ==
  /\ \E r \in { read_all(mq4_ro, raw, dht) } :
       IF mq4_ro = NoneV
         THEN read_uncal' = r.methane_ppm /\ UNCHANGED read_cal
         ELSE read_cal' = r.methane_ppm /\ UNCHANGED read_uncal
  /\ UNCHANGED << mq4_ro, calibrations, displayVars, loopVars, rsVars >>

\* display.update(temperature, humidity, methane, shelf_life) with any arguments
CallUpdate(temperature, humidity, methane_arg, shelf_arg) ==
  /\ updates < MaxUpdates
  /\ update(temperature, humidity, methane_arg, shelf_arg)
  /\ UNCHANGED << sensorVars, loopVars, rsVars >>

NextSensor ==
  \/ \E reads \in CalibrationReads : CallCalibrate(reads)
  \/ \E raw \in RawSamples, dht \in DhtReadings : CallReadAll(raw, dht)

\* a SensorSuite under any sequence of calibrate_mq4_ro and read_all calls
SpecSensor == Init /\ [][NextSensor]_vars

NextDisplay ==
  \E t \in UpdateTemperatures, h \in UpdateHumidities,
     m \in UpdateMethanes, s \in UpdateShelfLives : CallUpdate(t, h, m, s)

\* a BananaLcdDisplay under any sequence of update calls
SpecDisplay == Init /\ [][NextDisplay]_vars

(* ------------------- get_rs as a function of its input ---------------- *)
\* the voltages get_rs is applied to: below zero, zero, inside (0, vref), vref, above,
\* and None (the ADC is read)
RsVoltages ==
  { Rat(-1, 2), Num(0), Rat(1, 100), Rat(11, 10), Rat(33, 20), Rat(11, 5), Rat(329, 100),
    MQ4_VREF, Num(5), NoneV }

InitRs ==
  /\ pc = "init"
  /\ mq4_ro = NoneV
  /\ current_screen = 0
  /\ lcd_ops = <<>>
  /\ frame = NoFrame
  /\ rendered = "none"
  /\ methane_history = <<>>
  /\ methane = UnsetV
  /\ methane_avg = UnsetV
  /\ shelf_life = "unset"
  /\ produced = <<>>
  /\ cycles = 0
  /\ cycle_screen = 0
  /\ updates = 0
  /\ calibrations = 0
  /\ read_uncal = UnsetV
  /\ read_cal = UnsetV
  /\ rs_in \in [v1 : RsVoltages, v2 : RsVoltages, adc : RawSamples]
  /\ rs_out = << UnsetV, UnsetV >>

\* get_rs applied to both voltages
CallGetRs ==
  /\ rs_out = << UnsetV, UnsetV >>
  /\ rs_out' = << get_rs(rs_in.v1, rs_in.adc), get_rs(rs_in.v2, rs_in.adc) >>
  /\ UNCHANGED << rs_in, sensorVars, displayVars, loopVars >>

NextRs == CallGetRs

SpecRs == InitRs /\ [][NextRs]_vars


(* ------------------------------ claims -------------------------------- *)
ShelfLifeLabels == { "Unknown", "5-7 Days", "3-5 Days", "1-3 Days", "0 Days" }

\* the text of line 1 and line 2 the LCD was last given
LcdLine1 == lcd_ops[3].text
LcdLine2 == lcd_ops[5].text

\* C1: every cycle whose methane reading is absent still runs to completion (the
\* display is updated) and the loop goes on; the program never stops on such a cycle.
C1_NoCycleIsFatal ==
  (cycles > 0 /\ methane = NoneV) => (pc # "crashed" /\ rendered # "none")

\* C2: without a baseline read_all never yields a number for methane, and what the
\* caller gets differs from the absent outcome of a degenerate reading with a baseline.
C2_UncalibratedIsDistinct ==
  /\ read_uncal # UnsetV => read_uncal.kind \notin {"num", "inf", "nan"}
  /\ (read_uncal # UnsetV /\ read_cal = NoneV) => read_uncal # read_cal

\* C3: once calibrate_mq4_ro has stored a baseline, the baseline is greater than zero.
C3_BaselineNeverZero ==
  mq4_ro # NoneV => FLt(Num(0), mq4_ro)

\* the screen the LCD shows, read off the text of its first line
ShownScreen ==
  IF Len(lcd_ops) < 5 THEN "none"
  ELSE IF SubSeq(LcdLine1, 1, 4) = SubSeq(TXT_TEMP, 1, 4) THEN "A"
  ELSE IF SubSeq(LcdLine1, 1, 4) = SubSeq(TXT_METHANE, 1, 4) THEN "B"
  ELSE "other"

\* C4: the k-th call of update shows screen A when k is odd and screen B when k is
\* even, whatever the arguments; current_screen changes only in a call of update,
\* and then it toggles.
C4_UpdateAlternates ==
  /\ [](updates > 0 =>
          /\ ShownScreen = (IF updates % 2 = 1 THEN "A" ELSE "B")
          /\ rendered = ShownScreen
          /\ current_screen = updates % 2)
  /\ [][current_screen' # current_screen =>
          (updates' = updates + 1 /\ current_screen' = 1 - current_screen)]_vars

C4_Witness ==
  updates = 3 /\ ShownScreen = "A" /\ frame.temperature = NoneV /\ frame.methane # NoneV

\* the last n elements of s
LastN(s, n) == SubSeq(s, Len(s) - n + 1, Len(s))

Min(a, b) == IF a < b THEN a ELSE b

\* C5: the window holds at most 5 values, exactly the most recent min(k, 5) values
\* read_all produced, in order; a cycle with an absent reading leaves it unchanged.
C5_WindowIsMostRecent ==
  /\ [](/\ Len(methane_history) <= 5
        /\ methane_history = LastN(produced, Min(Len(produced), 5)))
  /\ [][(cycles' = cycles + 1 /\ methane' = NoneV) => methane_history' = methane_history]_vars

C5_Witness ==
  /\ Len(produced) = 6
  /\ produced[1] # produced[2]
  /\ Len(methane_history) = 5
  /\ methane_history[1] = produced[2]

\* the total of the values of h, from the head
RECURSIVE SeqTotal(_)
SeqTotal(h) == IF h = <<>> THEN Num(0) ELSE FAdd(h[1], SeqTotal(Tail(h)))

\* a is the arithmetic mean of the non-empty sequence h: a * len(h) = total(h)
IsMeanOf(a, h) ==
  /\ h # <<>>
  /\ a.kind \in {"num", "nan"}
  /\ FMul(a, Num(Len(h))) = SeqTotal(h)

\* C6 as stated: after a cycle the smoothed value is the mean of the window, and it
\* is absent exactly when the window is empty.
C6_AbsentIffWindowEmpty ==
  cycles > 0 =>
    /\ (methane_avg = NoneV) <=> (methane_history = <<>>)
    /\ methane_avg # NoneV => IsMeanOf(methane_avg, methane_history)

\* C6 as amended: after the smoothing step of a cycle the smoothed value is the mean
\* of the window when the cycle's reading is present, and it is absent exactly when
\* the cycle's reading is absent, also when the window holds earlier values.
C6_AbsentIffReadingAbsent ==
  cycles > 0 =>
    /\ (methane_avg = NoneV) <=> (methane = NoneV)
    /\ methane_avg # NoneV => IsMeanOf(methane_avg, methane_history)

C6_Witness ==
  /\ cycles > 1
  /\ methane = NoneV
  /\ methane_avg = NoneV
  /\ Len(methane_history) >= 2

\* C7: the label is "Unknown" for an absent smoothed value, and for a value v it is
\* "5-7 Days" when v < 8, "3-5 Days" when 8 <= v < 10, "1-3 Days" when 10 <= v < 12,
\* "0 Days" when v >= 12; it is always one of these five.
C7_Classification ==
  cycles > 0 =>
    /\ shelf_life \in ShelfLifeLabels
    /\ (methane_avg = NoneV) <=> (shelf_life = "Unknown")
    /\ IsNum(methane_avg) =>
         LET n == methane_avg.num
             d == methane_avg.den
         IN /\ (n < 8 * d) <=> (shelf_life = "5-7 Days")
            /\ (8 * d <= n /\ n < 10 * d) <=> (shelf_life = "3-5 Days")
            /\ (10 * d <= n /\ n < 12 * d) <=> (shelf_life = "1-3 Days")
            /\ (12 * d <= n) <=> (shelf_life = "0 Days")

C7_Witness ==
  /\ cycles > 0
  /\ methane_avg = Num(8)
  /\ Len(methane_history) = 3
  /\ shelf_life = "3-5 Days"

\* C8: in a cycle whose smoothed value is absent and whose turn is screen B, screen B
\* is rendered with "Methane: N/A" and "Unknown"; a numeric methane line appears
\* only with a smoothed value present.
C8_AbsentShowsPlaceholder ==
  /\ (cycles > 0 /\ methane_avg = NoneV /\ cycle_screen = 1) =>
       /\ rendered = "B"
       /\ LcdLine1 = pad(TXT_METHANE_NA)
       /\ LcdLine2 = pad(TXT_UNKNOWN)
  /\ (cycles > 0 /\ rendered = "B" /\ LcdLine1 # pad(TXT_METHANE_NA)) =>
       methane_avg \notin {NoneV, UnsetV}

\* the text of the two lines before padding, from the arguments of the last update
SourceLine1 ==
  IF rendered = "A" THEN temp_str(frame.temperature) ELSE methane_str(frame.methane)
SourceLine2 ==
  IF rendered = "A" THEN humid_str(frame.humidity) ELSE shelf_str(frame.shelf_life)

\* shown is src cut to its first 16 characters, or followed by spaces up to 16
IsFitted(shown, src) ==
  /\ Len(shown) = 16
  /\ \A j \in 1..16 : shown[j] = (IF j <= Len(src) THEN src[j] ELSE " ")

\* C9: a render is clear, move_to(0,0), putstr, move_to(0,1), putstr in this order,
\* and each string written is 16 characters: the text padded with spaces or cut.
C9_RenderSequence ==
  updates > 0 =>
    /\ Len(lcd_ops) = 5
    /\ lcd_ops[1] = LcdClear
    /\ lcd_ops[2] = LcdMoveTo(0, 0)
    /\ lcd_ops[3].op = "putstr"
    /\ lcd_ops[4] = LcdMoveTo(0, 1)
    /\ lcd_ops[5].op = "putstr"
    /\ IsFitted(LcdLine1, SourceLine1)
    /\ IsFitted(LcdLine2, SourceLine2)

C9_Witness ==
  /\ updates > 0
  /\ rendered = "B"
  /\ Len(SourceLine1) > 16
  /\ Len(SourceLine2) < 16
  /\ LcdLine2[16] = " "

\* the voltage get_rs works on: the argument, or the converted ADC sample for None
RsVoltage(v) == IF v = NoneV THEN Rat(33 * rs_in.adc, 10 * 65535) ELSE v

\* out is what C10 says get_rs gives for the voltage n/d
RsAsClaimed(v, out) ==
  LET n == RsVoltage(v).num
      d == RsVoltage(v).den
  IN /\ n <= 0 => out = InfV
     /\ 10 * n >= 33 * d => out = Num(0)
     /\ (n > 0 /\ 10 * n < 33 * d) =>
          /\ out.kind = "num"
          /\ out.num > 0
          /\ FMul(out, RsVoltage(v)) = FMul(Num(10000), Rat(33 * d - 10 * n, 10 * d))

=============================================================================
